---- MODULE Spec2Model ----
(***************************************************************************)
(* Model of prime_numbers.py: the module-level prime cache _global_sieve,  *)
(* the sieve generator _prime_sieve, the cache helpers, and the two public *)
(* entry points is_prime and decompose with their validation decorator.    *)
(*                                                                         *)
(* Python 2 semantics are kept: "/" on ints is floor division, xrange      *)
(* excludes its stop value, int(x ** .5) is the integer square root (the   *)
(* float is exact far beyond the sizes used here), int(float) truncates    *)
(* toward zero, and generators are consumed lazily.  Leading underscores   *)
(* of the Python names are dropped.                                        *)
(***************************************************************************)
EXTENDS Integers, Sequences, FiniteSets, TLC

VARIABLES
    global_sieve,   \* the module-level list _global_sieve
    op,             \* the last call made: "import", "is_prime", "decompose", "prime_sieve"
    arg,            \* its argument
    outcome,        \* "ok", or the exception it raised
    value,          \* what is_prime returned
    factors,        \* what decompose returned
    yielded         \* what list(_prime_sieve(n)) collected

vars == <<global_sieve, op, arg, outcome, value, factors, yielded>>

(***************************************************************************)
(* Bounds.  The source fixes both cache constants at 1000000               *)
(* (prime_numbers.py lines 72 and 74); the model scales them down so that  *)
(* the startup sieve, growth of the cache and the capacity limit are all   *)
(* reached by inputs up to MaxN.                                           *)
(***************************************************************************)
global_sieve_initial_max == 24

global_sieve_max_size == 5

MaxN == 180

MinInt == 3

MaxSieveN == 130

(***************************************************************************)
(* Inputs.  A Python value handed to is_prime/decompose is an int, a float *)
(* (held in tenths: num = 42 is 4.2) or a str (a sequence of characters).  *)
(***************************************************************************)
IntInput(i) == [kind |-> "int", num |-> i, text |-> <<>>]

FloatInput(t) == [kind |-> "float", num |-> t, text |-> <<>>]

StrInput(s) == [kind |-> "str", num |-> 0, text |-> s]

FloatTenths == {-42, -10, 0, 1, 9, 10, 20, 42, 69, 70, 90, 1210, 1690}

Strings == { <<>>, <<"a">>, <<"4", ".", "2">>, <<"4", "2">>, <<"-", "3">>, <<"7">> }

Inputs ==
    {IntInput(i) : i \in (0 - MinInt)..MaxN}
        \cup {FloatInput(t) : t \in FloatTenths}
        \cup {StrInput(s) : s \in Strings}

NoFactors == [x \in {} |-> 0]

(***************************************************************************)
(* Python built-ins used by the module.                                    *)
(***************************************************************************)
\* int(n ** .5) for a non-negative int n
Isqrt(n) == CHOOSE r \in 0..n : r * r <= n /\ (r + 1) * (r + 1) > n

\* int(x) for the float x = t / 10: truncation toward zero
IntOfFloat(t) == IF t >= 0 THEN t \div 10 ELSE 0 - ((0 - t) \div 10)

Digits == <<"0", "1", "2", "3", "4", "5", "6", "7", "8", "9">>

IsDigit(c) == \E d \in 1..10 : Digits[d] = c

DigitValue(c) == (CHOOSE d \in 1..10 : Digits[d] = c) - 1

RECURSIVE DigitsValue(_, _)
DigitsValue(s, acc) ==
    IF s = <<>> THEN acc ELSE DigitsValue(Tail(s), 10 * acc + DigitValue(Head(s)))

AllDigits(s) == s # <<>> /\ \A k \in 1..Len(s) : IsDigit(s[k])

\* int(s) for a str s: an optional sign followed by digits, else ValueError
StrParses(s) ==
    IF s # <<>> /\ Head(s) \in {"-", "+"} THEN AllDigits(Tail(s)) ELSE AllDigits(s)

IntOfStr(s) ==
    IF Head(s) = "-" THEN 0 - DigitsValue(Tail(s), 0)
    ELSE IF Head(s) = "+" THEN DigitsValue(Tail(s), 0)
    ELSE DigitsValue(s, 0)

\* bisect.bisect_left(a, x, lo, hi)
RECURSIVE bisect_left(_, _, _, _)
bisect_left(a, x, lo, hi) ==
    IF lo < hi
    THEN LET mid == (lo + hi) \div 2
         IN IF a[mid + 1] < x THEN bisect_left(a, x, mid + 1, hi)
            ELSE bisect_left(a, x, lo, mid)
    ELSE lo

(***************************************************************************)
(* _prime_sieve(n): the values the generator yields when run to            *)
(* exhaustion, in order.  sieve is the list of n/2 marks (0-based).        *)
(***************************************************************************)
\* Faulty variant: the marking pass is skipped, so odd composites are yielded.
mark_multiples_unmarked(sieve, i) == sieve

\* for j in xrange(int(1.5*i), n/2, i): sieve[j] = 1
mark_multiples(sieve, i) ==
    [j \in DOMAIN sieve |->
        IF j >= (3 * i) \div 2 /\ (j - (3 * i) \div 2) % i = 0 THEN 1 ELSE sieve[j]]

\* for i in xrange(3, int(n**0.5) + 1, 2): if sieve[i/2] == 0: yield i; mark
RECURSIVE sieve_loop(_, _, _, _)
sieve_loop(i, stop, sieve, out) ==
    IF i >= stop THEN out
    ELSE IF sieve[i \div 2] = 0
         THEN sieve_loop(i + 2, stop, mark_multiples(sieve, i), Append(out, i))
         ELSE sieve_loop(i + 2, stop, sieve, out)

prime_sieve(n) ==
    LET m == n + 1
        sieve == [j \in 0..(m \div 2 - 1) |-> 0]
    IN sieve_loop(3, Isqrt(m) + 1, sieve, <<2>>)

make_global_sieve(n) == prime_sieve(n)

(***************************************************************************)
(* Cache helpers.                                                          *)
(***************************************************************************)
max_global_sieve(gs) == gs[Len(gs)]

in_global_sieve(gs, n) ==
    IF n <= max_global_sieve(gs)
    THEN LET i == bisect_left(gs, n, 0, Len(gs))
         IN i # Len(gs) /\ gs[i + 1] = n
    ELSE FALSE

\* the two assertions of _add_to_global_sieve
add_to_global_sieve_asserts(gs, n) == n > 1 /\ ~in_global_sieve(gs, n)

\* Faulty variant: the size test is dropped and the append always happens.
add_to_global_sieve_unbounded(gs, n) == Append(gs, n)

\* the list after _add_to_global_sieve(n) when its assertions hold
add_to_global_sieve(gs, n) ==
    IF Len(gs) < global_sieve_max_size THEN Append(gs, n) ELSE gs

(***************************************************************************)
(* checks_factorizable_number: the decorator's closure.  It gives the      *)
(* exception it raises, or "ok" and the int handed to the wrapped function.*)
(***************************************************************************)
\* try: n = int(number) / except ValueError: raise TypeError
int_conversion_fails(x) == x.kind = "str" /\ ~StrParses(x.text)

int_of(x) ==
    IF x.kind = "int" THEN x.num
    ELSE IF x.kind = "float" THEN IntOfFloat(x.num)
    ELSE IntOfStr(x.text)

\* n != number: an int never equals a str; an int equals a float by value
differs_from_input(n, x) ==
    IF x.kind = "int" THEN n # x.num
    ELSE IF x.kind = "float" THEN n * 10 # x.num
    ELSE TRUE

\* Faulty variant: the value test runs before the n != number test.
checks_factorizable_number_value_first(x) ==
    IF int_conversion_fails(x) THEN "TypeError"
    ELSE IF int_of(x) <= 1 THEN "ValueError"
    ELSE IF differs_from_input(int_of(x), x) THEN "TypeError"
    ELSE "ok"

checks_factorizable_number(x) ==
    IF int_conversion_fails(x) THEN "TypeError"
    ELSE IF differs_from_input(int_of(x), x) THEN "TypeError"
    ELSE IF int_of(x) <= 1 THEN "ValueError"
    ELSE "ok"

(***************************************************************************)
(* is_prime(number) on the cache gs: the value returned and the return     *)
(* statement that produced it.                                             *)
(***************************************************************************)
\* Faulty variant: the loop falls through to "return False".
RECURSIVE wheel_loop_default_false(_, _, _)
wheel_loop_default_false(number, f, limit) ==
    IF f >= limit THEN [value |-> FALSE, path |-> "wheel_end"]
    ELSE IF number % f = 0 \/ number % (f + 4) = 0
         THEN [value |-> FALSE, path |-> "wheel_divisor"]
         ELSE wheel_loop_default_false(number, f + 6, limit)

\* for f in xrange(start, limit, 6): ... return False / return True
RECURSIVE wheel_loop(_, _, _)
wheel_loop(number, f, limit) ==
    IF f >= limit THEN [value |-> TRUE, path |-> "wheel_end"]
    ELSE IF number % f = 0 \/ number % (f + 4) = 0
         THEN [value |-> FALSE, path |-> "wheel_divisor"]
         ELSE wheel_loop(number, f + 6, limit)

\* start = _max_global_sieve(); if (start + 2) % 3 == 0: ...; start += 4
wheel_fallback(gs, number, limit) ==
    LET start == max_global_sieve(gs)
    IN IF (start + 2) % 3 = 0
       THEN IF number % start = 0
            THEN [value |-> FALSE, path |-> "start_divisor"]
            ELSE wheel_loop(number, start + 4, limit)
       ELSE wheel_loop(number, start, limit)

\* for p in _global_sieve: if p > limit: return True; if number % p == 0: return False
RECURSIVE cached_loop(_, _, _, _)
cached_loop(gs, k, number, limit) ==
    IF k > Len(gs) THEN wheel_fallback(gs, number, limit)
    ELSE IF gs[k] > limit THEN [value |-> TRUE, path |-> "over_limit"]
    ELSE IF number % gs[k] = 0 THEN [value |-> FALSE, path |-> "cached_divisor"]
    ELSE cached_loop(gs, k + 1, number, limit)

is_prime(gs, number) ==
    IF in_global_sieve(gs, number) THEN [value |-> TRUE, path |-> "cache_hit"]
    ELSE cached_loop(gs, 1, number, Isqrt(number))

(***************************************************************************)
(* _opt_prime_sieve(n) and _trial_division_decompose(n).                   *)
(***************************************************************************)
\* yield_til_number(number): for p in _global_sieve: yield p; if p >= number: break
RECURSIVE yield_til_number(_, _, _)
yield_til_number(gs, k, number) ==
    IF k > Len(gs) THEN <<>>
    ELSE IF gs[k] >= number THEN <<gs[k]>>
    ELSE <<gs[k]>> \o yield_til_number(gs, k + 1, number)

\* _opt_prime_sieve(n): which generator is returned, and what its source yields
opt_prime_sieve(gs, n) ==
    IF in_global_sieve(gs, n)
    THEN [appends |-> FALSE, source |-> yield_til_number(gs, 1, n + 1)]
    ELSE [appends |-> TRUE, source |-> prime_sieve(n)]

\* add_factor(f)
add_factor(fs, f) ==
    [x \in DOMAIN fs \cup {f} |-> IF x \in DOMAIN fs /\ x # f THEN fs[x]
                                  ELSE IF x \in DOMAIN fs THEN fs[x] + 1 ELSE 1]

\* while n % p == 0: add_factor(p); n //= p
RECURSIVE divide_out(_, _, _)
divide_out(n, p, fs) ==
    IF n % p = 0 THEN divide_out(n \div p, p, add_factor(fs, p))
    ELSE [n |-> n, factors |-> fs]

\* one step of yield_and_append: the cache after "if not _in_global_sieve(s):
\* _add_to_global_sieve(s)", and whether an assertion of the latter failed
yield_and_append(gs, s) ==
    IF ~in_global_sieve(gs, s)
    THEN IF add_to_global_sieve_asserts(gs, s)
         THEN [sieve |-> add_to_global_sieve(gs, s), failed |-> FALSE]
         ELSE [sieve |-> gs, failed |-> TRUE]
    ELSE [sieve |-> gs, failed |-> FALSE]

\* Faulty variant: the break test is p*p >= n.
loop_breaks_at_square(p, n) == p * p >= n

\* if p*p > n: break
loop_breaks(p, n) == p * p > n

\* for p in primes: ...   Each pass first resumes the generator (which, for
\* yield_and_append, touches the cache before it yields), then runs the body.
RECURSIVE trial_loop(_, _, _, _, _)
trial_loop(gen, k, n, fs, gs) ==
    IF k > Len(gen.source)
    THEN [n |-> n, factors |-> fs, sieve |-> gs, failed |-> FALSE]
    ELSE LET p == gen.source[k]
             step == IF gen.appends THEN yield_and_append(gs, p)
                     ELSE [sieve |-> gs, failed |-> FALSE]
         IN IF step.failed
            THEN [n |-> n, factors |-> fs, sieve |-> step.sieve, failed |-> TRUE]
            ELSE IF loop_breaks(p, n)
            THEN [n |-> n, factors |-> fs, sieve |-> step.sieve, failed |-> FALSE]
            ELSE LET d == divide_out(n, p, fs)
                 IN trial_loop(gen, k + 1, d.n, d.factors, step.sieve)

\* Faulty variant: the special case "n is a prime" is forgotten.
add_remainder_forgotten(n, fs) == fs

\* if n > 1: add_factor(n)
add_remainder(n, fs) == IF n > 1 THEN add_factor(fs, n) ELSE fs

\* the value returned (factors), the n left when the loop ended (rem), the
\* cache afterwards, and whether an assertion failed on the way
trial_division_decompose(gs, n) ==
    LET r == trial_loop(opt_prime_sieve(gs, n), 1, n, NoFactors, gs)
    IN [factors |-> IF r.failed THEN NoFactors ELSE add_remainder(r.n, r.factors),
        rem |-> r.n, sieve |-> r.sieve, failed |-> r.failed]

decompose(gs, n) == trial_division_decompose(gs, n)

(***************************************************************************)
(* The program: module import, then any sequence of calls.                 *)
(***************************************************************************)
Init ==
    /\ global_sieve = make_global_sieve(global_sieve_initial_max)
    /\ Len(global_sieve) < global_sieve_max_size
    /\ op = "import"
    /\ arg = IntInput(0)
    /\ outcome = "ok"
    /\ value = FALSE
    /\ factors = NoFactors
    /\ yielded = <<>>

\* Faulty variant: is_prime appends a number it found prime to the cache (what
\* its docstring describes).
IsPrimeCall_appending(x) ==
    /\ op' = "is_prime"
    /\ arg' = x
    /\ outcome' = checks_factorizable_number(x)
    /\ value' = IF outcome' = "ok" THEN is_prime(global_sieve, int_of(x)).value ELSE FALSE
    /\ factors' = NoFactors
    /\ global_sieve' =
           IF outcome' = "ok" /\ value' /\ ~in_global_sieve(global_sieve, int_of(x))
           THEN add_to_global_sieve(global_sieve, int_of(x))
           ELSE global_sieve
    /\ yielded' = yielded

IsPrimeCall(x) ==
    /\ op' = "is_prime"
    /\ arg' = x
    /\ outcome' = checks_factorizable_number(x)
    /\ value' = IF outcome' = "ok" THEN is_prime(global_sieve, int_of(x)).value ELSE FALSE
    /\ factors' = NoFactors
    /\ global_sieve' = global_sieve
    /\ yielded' = yielded

DecomposeCall(x) ==
    /\ op' = "decompose"
    /\ arg' = x
    /\ value' = FALSE
    /\ yielded' = yielded
    /\ LET check == checks_factorizable_number(x)
       IN IF check = "ok"
          THEN LET r == decompose(global_sieve, int_of(x))
               IN /\ outcome' = IF r.failed THEN "AssertionError" ELSE "ok"
                  /\ factors' = r.factors
                  /\ global_sieve' = r.sieve
          ELSE /\ outcome' = check
               /\ factors' = NoFactors
               /\ global_sieve' = global_sieve

Next ==
    \/ \E x \in Inputs : IsPrimeCall(x)
    \/ \E x \in Inputs : DecomposeCall(x)

Spec == Init /\ [][Next]_vars

(***************************************************************************)
(* The sieve on its own: after import, _prime_sieve(n) is run to           *)
(* exhaustion on any int n, as _make_global_sieve does.  Its first         *)
(* statement is _check_factorizable_number_concept(n).                     *)
(***************************************************************************)
PrimeSieveCall(n) ==
    /\ op' = "prime_sieve"
    /\ arg' = IntInput(n)
    /\ outcome' = IF n > 1 THEN "ok" ELSE "AssertionError"
    /\ yielded' = IF n > 1 THEN make_global_sieve(n) ELSE <<>>
    /\ UNCHANGED <<global_sieve, value, factors>>

SieveNext == \E n \in 0..MaxSieveN : PrimeSieveCall(n)

SieveSpec == Init /\ [][SieveNext]_vars

(***************************************************************************)
(* Reference notions the properties are stated with.                       *)
(***************************************************************************)
IsPrimeNumber(n) == n > 1 /\ \A d \in 2..(n - 1) : n % d # 0

Elements(seq) == {seq[k] : k \in 1..Len(seq)}

StrictlyIncreasing(seq) == \A k \in 1..(Len(seq) - 1) : seq[k] < seq[k + 1]

IsPrefix(a, b) == Len(a) <= Len(b) /\ \A k \in 1..Len(a) : a[k] = b[k]

RECURSIVE Power(_, _)
Power(b, e) == IF e = 0 THEN 1 ELSE b * Power(b, e - 1)

RECURSIVE ProductOf(_, _)
ProductOf(fs, keys) ==
    IF keys = {} THEN 1
    ELSE LET k == CHOOSE k \in keys : TRUE
         IN Power(k, fs[k]) * ProductOf(fs, keys \ {k})

ImportSieve == make_global_sieve(global_sieve_initial_max)

\* the input is an int, or a float with no fractional part
IntegerValued(x) == x.kind = "int" \/ (x.kind = "float" /\ x.num % 10 = 0)

Accepted(o) == op = o /\ outcome = "ok"

Number == int_of(arg)

\* the first f the wheel loop of is_prime would test on the current cache
WheelStart ==
    LET start == max_global_sieve(global_sieve)
    IN IF (start + 2) % 3 = 0 THEN start + 4 ELSE start

\* a prime the sieve of decompose(Number) yielded past the cache without its
\* being retained: the loop body ran on it
YieldedNotRetained(p) ==
    /\ p \in Elements(prime_sieve(Number))
    /\ p > max_global_sieve(global_sieve)
    /\ p * p <= decompose(global_sieve, Number).rem

(***************************************************************************)
(* C1: for every n > 1 and every reachable cache, is_prime(n) is true      *)
(* exactly when decompose(n) is the one-entry mapping {n: 1}.              *)
(***************************************************************************)
C1_IsPrimeIffSingleFactor ==
    Accepted("is_prime") =>
        (value <=> decompose(global_sieve, Number).factors = [k \in {Number} |-> 1])

(***************************************************************************)
(* C2: multiplying the keys of decompose(n), each raised to its exponent,  *)
(* gives n.                                                                *)
(***************************************************************************)
C2_ProductReproducesNumber ==
    Accepted("decompose") => ProductOf(factors, DOMAIN factors) = Number

\* a decomposition with several factors and a repeated one, on a grown cache
C2_Witness ==
    /\ Accepted("decompose")
    /\ Cardinality(DOMAIN factors) >= 2
    /\ \E k \in DOMAIN factors : factors[k] >= 2
    /\ Len(global_sieve) > Len(ImportSieve)

(***************************************************************************)
(* C3: the result of is_prime(n) is the one it gives on the cache as it is *)
(* after import, whatever queries ran before.                              *)
(***************************************************************************)
C3_IsPrimeIgnoresCacheState ==
    Accepted("is_prime") => value = is_prime(ImportSieve, Number).value

(***************************************************************************)
(* C4: is_prime(p) is true for every prime p, in every reachable cache     *)
(* state, on the cache-hit path as on the wheel fallback.                  *)
(***************************************************************************)
C4_PrimesAreAccepted ==
    (Accepted("is_prime") /\ IsPrimeNumber(Number)) => value = TRUE

\* a prime past the cache for which the wheel loop ran at least one pass
C4_Witness ==
    /\ Accepted("is_prime")
    /\ IsPrimeNumber(Number)
    /\ is_prime(global_sieve, Number).path = "wheel_end"
    /\ WheelStart < Isqrt(Number)

(***************************************************************************)
(* C5: every key of decompose(n) is prime and every exponent is at least   *)
(* 1, also for the remainder recorded after the loop and with the cache at *)
(* capacity, and the mapping is the one obtained on the cache as imported. *)
(***************************************************************************)
C5_FactorsArePrime ==
    Accepted("decompose") =>
        /\ \A k \in DOMAIN factors : IsPrimeNumber(k) /\ factors[k] >= 1
        /\ factors = decompose(ImportSieve, Number).factors

\* cache at capacity, a yielded prime not retained, and a remainder recorded
C5_Witness ==
    /\ Accepted("decompose")
    /\ Len(global_sieve) = global_sieve_max_size
    /\ decompose(global_sieve, Number).rem > 1
    /\ \E p \in 2..Number : YieldedNotRetained(p)

(***************************************************************************)
(* C6: both entry points raise TypeError exactly for inputs that are not   *)
(* integer-valued and ValueError exactly for integer-valued inputs <= 1    *)
(* (so the type test wins when both apply); a rejected call returns        *)
(* nothing and leaves the cache as it was.                                 *)
(***************************************************************************)
C6_Classification ==
    op \in {"is_prime", "decompose"} =>
        /\ outcome = "TypeError" <=> ~IntegerValued(arg)
        /\ outcome = "ValueError" <=> (IntegerValued(arg) /\ Number <= 1)
        /\ outcome # "ok" => (value = FALSE /\ factors = NoFactors)

C6_RejectedCallKeepsCache ==
    outcome' \in {"TypeError", "ValueError"} => global_sieve' = global_sieve

C7_CacheShape ==
    /\ StrictlyIncreasing(global_sieve)
    /\ Len(global_sieve) <= global_sieve_max_size

C7_AppendOnly == IsPrefix(global_sieve, global_sieve')

C7_CacheInvariant == []C7_CacheShape /\ [][C7_AppendOnly]_vars

\* the cache is full and decompose divided by a prime that was not retained
C7_Witness ==
    /\ Accepted("decompose")
    /\ Len(global_sieve) = global_sieve_max_size
    /\ \E p \in DOMAIN factors : p > max_global_sieve(global_sieve) /\ p * p <= Number

(***************************************************************************)
(* C8: _prime_sieve(N), N > 1, yields in strictly ascending order every    *)
(* prime p <= N and nothing else.                                          *)
(***************************************************************************)
C8_SieveYieldsAllPrimes ==
    Accepted("prime_sieve") =>
        /\ StrictlyIncreasing(yielded)
        /\ Elements(yielded) = {p \in 2..Number : IsPrimeNumber(p)}

C10_GapFreePrimePrefix ==
    /\ Elements(global_sieve) =
           {p \in 2..max_global_sieve(global_sieve) : IsPrimeNumber(p)}
    /\ outcome # "AssertionError"

\* decompose grew the cache and stopped consuming the sieve before its end
C10_Witness ==
    /\ Accepted("decompose")
    /\ Len(global_sieve) > Len(ImportSieve)
    /\ Len(global_sieve) < global_sieve_max_size
    /\ \E p \in Elements(prime_sieve(Number)) : p > max_global_sieve(global_sieve)

====
